---- MODULE Spec2Model ----
(***************************************************************************)
(* mcp-toolkit-hub: the hub server (PersonalOrchestratorServer) that loads *)
(* the policy configuration, loads the domain packages, registers their    *)
(* tools under a namespaced prefix and serves calls to them.               *)
(*                                                                         *)
(* The server class, its initialization, the package loaders, the tool     *)
(* handlers and the meta tools are those of the v0.5.0 hub                 *)
(* (src/unnamed/part_004, src/src/server/tools.ts, src/src/lib/config.ts). *)
(* The security guardrails (allowlist, write gating, resource scoping,     *)
(* invocation logging) are exercised by src/tests/security.test.ts but     *)
(* their implementation is not among the sources; they are modelled from   *)
(* spec.md sections 3, 4.2, 4.3 and 6 and are marked as such.              *)
(***************************************************************************)
EXTENDS Integers, Sequences, FiniteSets, TLC

VARIABLES
    pc,                 \* position of main(): initialize() steps, then start()
    configFile,         \* environment: what reading the config file yields
    disk,               \* environment: state of each package's directory
    config,             \* this.config
    configError,        \* this.configError
    packageValidation,  \* this.packageValidation
    briefingModules,    \* this.briefingModules !== null
    briefingLoadError,  \* this.briefingLoadError
    sheetsModules,      \* this.sheetsModules !== null
    sheetsLoadError,    \* this.sheetsLoadError
    imported,           \* the package paths a loader has called import() on
    decl,               \* the tool declarations handed to the registry, and the next one
    registered,         \* the calls made to server.tool(), in order
    calls,              \* the invocations: idle, running (at the handler's await), done
    log,                \* the invocation records written so far
    now,                \* the wall clock, in ms
    fatal               \* an uncaught exception / unhandled rejection was raised

vars == <<pc, configFile, disk, config, configError, packageValidation,
          briefingModules, briefingLoadError, sheetsModules, sheetsLoadError,
          imported, decl, registered, calls, log, now, fatal>>

hubVars == <<config, configError, packageValidation, briefingModules,
             briefingLoadError, sheetsModules, sheetsLoadError, imported, registered>>

-----------------------------------------------------------------------------
(* Bounds of the model.                                                    *)

\* invocations a run makes in total
MaxCalls == 2
\* tool declarations handed to the registry in a run of the registry alone
MaxDecl == 3
\* the clock stops advancing here
MaxClock == 2
\* largest allowed_tools list a configuration of the registry family carries
MaxAllowlist == 2

-----------------------------------------------------------------------------
(* Values.                                                                 *)

Null == "<null>"

\* private config: OrchestratorConfig | null = null, before loadConfig() answers
NoConfig == [ kind |-> "null" ]

\* an optional key of the YAML document: present with a value, or omitted
Some(v) == [set |-> TRUE, val |-> v]
NoBool == [set |-> FALSE, val |-> FALSE]
NoSet == [set |-> FALSE, val |-> {}]
NoScope == [set |-> FALSE, param |-> "", allowed |-> {}]
Scope(p, a) == [set |-> TRUE, param |-> p, allowed |-> a]

SERVER_VERSION == "0.5.0"

\* the tools setupBriefingTools registers, in order
BriefingTools ==
    << "run_weekly_digest", "run_rss_digest", "content_feed_status", "health_check",
       "clear_state", "save_for_later", "import_read_later" >>

\* the tools setupSheetsTools registers, in order
SheetsTools ==
    << "list_sheets", "get_data", "update_cells", "batch_update", "append_rows",
       "create_sheet" >>

\* ToolDefinition.mutates: the state-changing tools
MutatingTools ==
    { "clear_state", "save_for_later", "import_read_later",
      "update_cells", "batch_update", "append_rows", "create_sheet" }

mutates(t) == t \in MutatingTools

\* the parameters a tool's schema declares, as far as scoping can address them
SchemaParams(t) ==
    IF t \in {"list_sheets", "get_data", "update_cells", "batch_update",
              "append_rows", "create_sheet"}
    THEN {"spreadsheet_id"} ELSE {}

Range(s) == { s[i] : i \in DOMAIN s }

Contains(text, token) == \E i \in DOMAIN text : text[i] = token

-----------------------------------------------------------------------------
(* The configuration file (config.yaml) and the package directories: the   *)
(* environment the hub starts in.                                          *)

\* the configuration keys a config.yaml of the model may use: the content
\* feed under its current and its legacy key, the sheets package, and a
\* package the hub has no loader for
PackageKeys == {"briefing", "newsletter", "sheets", "calendar"}

PathOf ==
    [ k \in PackageKeys |->
        CASE k = "briefing"   -> "~/mcp-authored/mcp-content-feed"
          [] k = "newsletter" -> "~/mcp-authored/mcp-newsletter"
          [] k = "sheets"     -> "~/mcp-authored/mcp-google-sheets"
          [] OTHER            -> "/opt/mcp/mcp-calendar" ]

RawPolicy(k, en, aw, at, rs) ==
    [ path |-> PathOf[k], enabled |-> en, allow_writes |-> aw,
      allowed_tools |-> at, resource_scope |-> rs ]

Absent == [ present |-> FALSE, pol |-> RawPolicy("briefing", NoBool, NoBool, NoSet, NoScope) ]
Present(p) == [ present |-> TRUE, pol |-> p ]

NoFile == [set |-> FALSE, val |-> ""]
LogPath == "/tmp/mcp-toolkit-hub.log"

NoSettings == [ set |-> FALSE, log_invocations |-> NoBool, log_file |-> NoFile ]
Settings(l) == [ set |-> TRUE, log_invocations |-> l, log_file |-> NoFile ]
FileSettings(l) == [ set |-> TRUE, log_invocations |-> l, log_file |-> Some(LogPath) ]

\* a readable, well-formed document with these packages and settings
Doc(b, s, st) ==
    [ kind |-> "ok",
      packages |->
        [ k \in ({"briefing"} \cap (IF b.present THEN {"briefing"} ELSE {}))
                \cup ({"sheets"} \cap (IF s.present THEN {"sheets"} ELSE {}))
          |-> IF k = "briefing" THEN b.pol ELSE s.pol ],
      settings |-> st ]

\* a file that cannot be read, parsed or validated
BadFile(kind) == [ kind |-> kind, packages |-> << >>, settings |-> NoSettings ]

BadFiles == { BadFile(k) : k \in {"ENOENT", "YAML", "ZOD", "EACCES"} }

AllowedValues == {"abc123", "def456"}
ScopeParams == {"spreadsheet_id", "range"}

\* the configurations the invocation pipeline is explored under
CoreSettings ==
    { NoSettings, Settings(NoBool), Settings(Some(TRUE)), Settings(Some(FALSE)),
      FileSettings(Some(TRUE)), FileSettings(NoBool) }

CoreBriefing ==
    { Absent,
      Present(RawPolicy("briefing", NoBool, Some(TRUE),
                        Some({"content_feed_status", "import_read_later"}), NoScope)) }

CoreScopes ==
    { NoScope, Scope("range", {"abc123"}) }
      \cup { Scope("spreadsheet_id", a) : a \in SUBSET AllowedValues }

CoreSheets ==
    { Absent }
      \cup { Present(RawPolicy("sheets", NoBool, aw,
                               Some({"list_sheets", "update_cells"}), rs)) :
               aw \in {NoBool, Some(TRUE)}, rs \in CoreScopes }

CoreFiles ==
    BadFiles \cup { Doc(b, s, st) : b \in CoreBriefing, s \in CoreSheets, st \in CoreSettings }

\* what the directory at a package's path holds
DiskStates == {"built", "not_built", "no_path", "broken"}

-----------------------------------------------------------------------------
(* src/lib/config.ts                                                       *)

\* PackageConfigSchema: enabled defaults to true; allow_writes to false
ParsePolicy(raw) ==
    [ path |-> raw.path,
      enabled |-> IF raw.enabled.set THEN raw.enabled.val ELSE TRUE,
      allow_writes |-> IF raw.allow_writes.set THEN raw.allow_writes.val ELSE FALSE,
      allowed_tools |-> raw.allowed_tools,
      resource_scope |-> raw.resource_scope ]

\* ConfigSchema: settings is optional; log_invocations defaults to false,
\* log_file is optional
ParseSettings(raw) ==
    [ set |-> raw.set,
      log_invocations |->
        IF raw.set /\ raw.log_invocations.set THEN raw.log_invocations.val ELSE FALSE,
      log_file |-> IF raw.set THEN raw.log_file ELSE NoFile ]

\* expandPath: a leading ~/ becomes the home directory
expandPath(p) ==
    CASE p = "~/mcp-authored/mcp-content-feed"  -> "/home/user/mcp-authored/mcp-content-feed"
      [] p = "~/mcp-authored/mcp-google-sheets" -> "/home/user/mcp-authored/mcp-google-sheets"
      [] p = "~/mcp-authored/mcp-newsletter"    -> "/home/user/mcp-authored/mcp-newsletter"
      [] OTHER -> p

\* what loadConfig returns for a well-formed file
Loaded(file) ==
    [ ok |-> TRUE, error |-> Null, isConfigError |-> FALSE, code |-> "",
      value |-> [ schema_version |-> "1.0",
                  packages |-> [ k \in DOMAIN file.packages |->
                                   [ ParsePolicy(file.packages[k])
                                       EXCEPT !.path = expandPath(@) ] ],
                  settings |-> ParseSettings(file.settings) ] ]

\* a ConfigError with this message and code
ConfigError(message, code) ==
    [ ok |-> FALSE, error |-> message, isConfigError |-> TRUE, code |-> code, value |-> Null ]

\* any other error, rethrown as it is
OtherError(message) ==
    [ ok |-> FALSE, error |-> message, isConfigError |-> FALSE, code |-> "", value |-> Null ]

\* (variant: a schema violation rethrown as the raw ZodError)
loadConfig_NoZodBranch(file) ==
    CASE file.kind = "ok"     -> Loaded(file)
      [] file.kind = "ENOENT" -> ConfigError("Config file not found", "NOT_FOUND")
      [] file.kind = "YAML"   -> ConfigError("Invalid YAML in config", "PARSE_ERROR")
      [] file.kind = "ZOD"    -> OtherError("Config validation failed")
      [] OTHER                -> OtherError("EACCES: permission denied")

\* loadConfig: the validated configuration, or the error it throws
loadConfig(file) ==
    CASE file.kind = "ok"     -> Loaded(file)
      [] file.kind = "ENOENT" -> ConfigError("Config file not found", "NOT_FOUND")
      [] file.kind = "YAML"   -> ConfigError("Invalid YAML in config", "PARSE_ERROR")
      [] file.kind = "ZOD"    -> ConfigError("Config validation failed", "VALIDATION_ERROR")
      [] OTHER                -> OtherError("EACCES: permission denied")

\* the configuration initialize() continues with when loadConfig threw
EmptyConfig ==
    [ schema_version |-> "1.0", packages |-> << >>, settings |-> ParseSettings(NoSettings) ]

\* getEnabledPackages: the names of the packages whose enabled flag is set
getEnabledPackages(cfg) == { k \in DOMAIN cfg.packages : cfg.packages[k].enabled }

\* validatePackages: one result per configured package
validatePackages(cfg, d) ==
    [ k \in DOMAIN cfg.packages |->
        [ name |-> k, enabled |-> cfg.packages[k].enabled,
          pathExists |-> d[k] # "no_path",
          distExists |-> d[k] \in {"built", "broken"},
          entryPointExists |-> d[k] \in {"built", "broken"} ] ]

-----------------------------------------------------------------------------
(* Package loading (loadBriefingModules, loadSheetsModules).               *)

\* what the dynamic import() of a package's dist modules does: it resolves
\* (no message), or rejects with this message
ImportMessage(d, packagePath) ==
    CASE d = "built"     -> << >>
      [] d = "not_built" -> << "Cannot find module", packagePath, "/dist/lib", "ERR_MODULE_NOT_FOUND" >>
      [] d = "no_path"   -> << "ENOENT: no such file or directory", packagePath >>
      [] d = "dangling"  -> << "Cannot find module", packagePath, "/dist/lib",
                               "ENOENT: no such file or directory" >>
      [] OTHER           -> << "SyntaxError: Unexpected token" >>

\* message.includes(marker)
Includes(message, marker) ==
    \E i \in DOMAIN message :
        \/ message[i] = marker
        \/ marker = "ENOENT" /\ message[i] = "ENOENT: no such file or directory"

\* (variant: the ENOENT test made before the module-not-found test)
ClassifyLoadError_EnoentFirst(message, packagePath) ==
    IF Includes(message, "ENOENT")
    THEN << "Package not found at ", packagePath, ". Check config path." >>
    ELSE IF Includes(message, "Cannot find module") \/ Includes(message, "ERR_MODULE_NOT_FOUND")
    THEN << "Package not built? Run npm run build in ", packagePath >>
    ELSE << "Failed to load: " >> \o message

\* the catch block of a loader: the actionable error it records
ClassifyLoadError(message, packagePath) ==
    IF Includes(message, "Cannot find module") \/ Includes(message, "ERR_MODULE_NOT_FOUND")
    THEN << "Package not built? Run npm run build in ", packagePath >>
    ELSE IF Includes(message, "ENOENT")
    THEN << "Package not found at ", packagePath, ". Check config path." >>
    ELSE << "Failed to load: " >> \o message

\* a loader's outcome for the directory state d: modules set, or an error
LoadModules(d, packagePath) ==
    IF d = "built"
    THEN [ modules |-> TRUE, loadError |-> << >> ]
    ELSE [ modules |-> FALSE,
           loadError |-> ClassifyLoadError(ImportMessage(d, packagePath), packagePath) ]

isBriefingPackage(name) == name = "briefing" \/ name = "newsletter"

isSheetsPackage(name) == name = "sheets"

\* enabledPackages.get('briefing') ?? enabledPackages.get('newsletter')
BriefingKey(cfg) ==
    IF "briefing" \in getEnabledPackages(cfg) THEN "briefing"
    ELSE IF "newsletter" \in getEnabledPackages(cfg) THEN "newsletter"
    ELSE Null

\* enabledPackages.get('sheets')
SheetsKey(cfg) == IF "sheets" \in getEnabledPackages(cfg) THEN "sheets" ELSE Null

-----------------------------------------------------------------------------
(* ToolRegistry (spec.md 4.2): the exposed set of a package under its      *)
(* policy.                                                                 *)

\* (variant: the allowlist closing over the mutating tools only)
InAllowlist_WritesOnly(policy, t) ==
    ~policy.allowed_tools.set \/ t \in policy.allowed_tools.val \/ ~mutates(t)

\* step 2: the closed allowlist
InAllowlist(policy, t) == ~policy.allowed_tools.set \/ t \in policy.allowed_tools.val

\* (variant: an allowlisted tool passing the write gate)
PassesWriteGate_Allowlisted(policy, t) ==
    \/ ~mutates(t)
    \/ policy.allow_writes
    \/ policy.allowed_tools.set /\ t \in policy.allowed_tools.val

\* step 3: the write gate
PassesWriteGate(policy, t) == ~mutates(t) \/ policy.allow_writes

Exposed(policy, t) == InAllowlist(policy, t) /\ PassesWriteGate(policy, t)

\* the subsequence of a manifest's tools the policy exposes, in their order
RECURSIVE ExposedTools(_, _)
ExposedTools(policy, tools) ==
    IF tools = << >> THEN << >>
    ELSE (IF Exposed(policy, Head(tools)) THEN << Head(tools) >> ELSE << >>)
             \o ExposedTools(policy, Tail(tools))

\* step 4: one server.tool() call per exposed tool, under prefix + "_" + name
RegisterPackage(prefix, key, policy, tools) ==
    [ i \in 1..Len(ExposedTools(policy, tools)) |->
        [ name |-> prefix \o "_" \o ExposedTools(policy, tools)[i],
          package |-> key,
          tool |-> ExposedTools(policy, tools)[i],
          policy |-> policy ] ]

\* the policy slot of a tool that belongs to no package
HubPolicy == ParsePolicy(RawPolicy("briefing", NoBool, NoBool, NoSet, NoScope))

MetaTool(n) == [ name |-> "orchestrator_" \o n, package |-> "orchestrator", tool |-> n,
                 policy |-> HubPolicy ]

\* setupBriefingTools: the briefing_ tools
setupBriefingTools(cfg) ==
    RegisterPackage("briefing", BriefingKey(cfg), cfg.packages[BriefingKey(cfg)], BriefingTools)

\* setupSheetsTools: the sheets_ tools
setupSheetsTools(cfg) ==
    RegisterPackage("sheets", SheetsKey(cfg), cfg.packages[SheetsKey(cfg)], SheetsTools)

\* the names bound in the registry reg
NamesIn(reg) == { reg[i].name : i \in DOMAIN reg }

\* (variant: a later registration of a bound name replacing the earlier one)
RegisterTool_Overwrite(reg, entry) ==
    IF entry.name \in NamesIn(reg)
    THEN [ i \in DOMAIN reg |-> IF reg[i].name = entry.name THEN entry ELSE reg[i] ]
    ELSE Append(reg, entry)

\* step 4, one binding: a fullName that is already registered is rejected
\* (logged and skipped), the registry stays as it is
RegisterTool(reg, entry) ==
    IF entry.name \in NamesIn(reg) THEN reg ELSE Append(reg, entry)

\* the bindings of a sequence of entries, in order
RECURSIVE RegisterAll(_, _)
RegisterAll(reg, entries) ==
    IF entries = << >> THEN reg
    ELSE CHOOSE out \in { RegisterAll(r, Tail(entries)) :
                            r \in { RegisterTool(reg, Head(entries)) } } : TRUE

\* setupTools: package tools of the loaded packages, then the two meta tools
setupTools(cfg, bm, sm) ==
    RegisterAll(<< >>,
                (IF bm THEN setupBriefingTools(cfg) ELSE << >>)
                    \o (IF sm THEN setupSheetsTools(cfg) ELSE << >>)
                    \o << MetaTool("status"), MetaTool("health") >>)

RegisteredNames == { registered[i].name : i \in DOMAIN registered }

\* the registration a call to the tool of this name reaches
Registration(name) ==
    registered[CHOOSE i \in DOMAIN registered :
                  /\ registered[i].name = name
                  /\ \A j \in DOMAIN registered : registered[j].name = name => i <= j]

-----------------------------------------------------------------------------
(* The meta tools (orchestrator_status, orchestrator_health).              *)

isLoaded(name) ==
    \/ isBriefingPackage(name) /\ briefingModules
    \/ isSheetsPackage(name) /\ sheetsModules

loadErrorOf(name) ==
    IF isBriefingPackage(name) THEN briefingLoadError
    ELSE IF isSheetsPackage(name) THEN sheetsLoadError
    ELSE << >>

\* the security part of a package's status lines: whether writes are enabled
\* and, for a scoped package, the name of the scoped parameter
SecurityLine(policy) ==
    [ writes |-> IF policy.allow_writes THEN "enabled" ELSE "disabled",
      scoped |-> IF policy.resource_scope.set THEN policy.resource_scope.param ELSE "" ]

\* (variant: the summary carrying the allowed values themselves)
SecuritySummary_Values(policy) ==
    [ allow_writes |-> policy.allow_writes,
      scoped |-> policy.resource_scope.set,
      param |-> IF policy.resource_scope.set THEN policy.resource_scope.param ELSE "",
      allowed_count |-> IF policy.resource_scope.set
                        THEN Cardinality(policy.resource_scope.allowed) ELSE 0,
      allowed |-> policy.resource_scope.allowed ]

\* the security summary of a package in the health view: allow_writes and,
\* for a scoped package, the parameter name and the number of allowed values
SecuritySummary(policy) ==
    [ allow_writes |-> policy.allow_writes,
      scoped |-> policy.resource_scope.set,
      param |-> IF policy.resource_scope.set THEN policy.resource_scope.param ELSE "",
      allowed_count |-> IF policy.resource_scope.set
                        THEN Cardinality(policy.resource_scope.allowed) ELSE 0 ]

\* (variant: every enabled package that is not loaded reported as failed)
StatusOfIn_NoThirdState(cfg, name) ==
    IF ~cfg.packages[name].enabled
    THEN [ state |-> "Disabled", error |-> << >>, path |-> "",
           security |-> SecurityLine(HubPolicy) ]
    ELSE [ state |-> IF isLoaded(name) THEN "Loaded" ELSE "Failed to load",
           error |-> IF ~isLoaded(name) THEN loadErrorOf(name) ELSE << >>,
           path |-> cfg.packages[name].path,
           security |-> SecurityLine(cfg.packages[name]) ]

\* one package's lines of the status text under the configuration cfg: a
\* disabled package gets its Disabled line and nothing else
StatusOfIn(cfg, name) ==
    IF ~cfg.packages[name].enabled
    THEN [ state |-> "Disabled", error |-> << >>, path |-> "",
           security |-> SecurityLine(HubPolicy) ]
    ELSE [ state |-> IF isLoaded(name) THEN "Loaded"
                     ELSE IF loadErrorOf(name) # << >> THEN "Failed to load"
                     ELSE "Enabled but not loaded",
           error |-> IF ~isLoaded(name) THEN loadErrorOf(name) ELSE << >>,
           path |-> cfg.packages[name].path,
           security |-> SecurityLine(cfg.packages[name]) ]

\* one package's lines of the status text
StatusOf(name) == StatusOfIn(config, name)

\* the text orchestrator_status returns under the configuration cfg
StatusViewOf(cfg) ==
    [ kind |-> "status",
      version |-> SERVER_VERSION,
      configLoaded |-> configError = Null,
      configError |-> configError,
      packages |-> [ k \in DOMAIN cfg.packages |-> StatusOfIn(cfg, k) ] ]

\* the text orchestrator_status returns
StatusView == StatusViewOf(config)

\* (variant: a disabled package that is not loaded counted as a failure)
HealthStatus_CountsDisabled(cfg) ==
    IF configError # Null THEN "unhealthy"
    ELSE IF \E k \in DOMAIN cfg.packages : ~isLoaded(k)
    THEN "degraded" ELSE "ready"

\* health.status: unhealthy on a configuration error, else degraded when an
\* enabled package is not loaded, else ready
HealthStatus(cfg) ==
    IF configError # Null THEN "unhealthy"
    ELSE IF \E k \in DOMAIN cfg.packages : cfg.packages[k].enabled /\ ~isLoaded(k)
    THEN "degraded" ELSE "ready"

\* the JSON orchestrator_health returns under the configuration cfg; hc is
\* what the delegated runHealthCheck of the briefing package gave (a result,
\* or the error caught)
HealthViewOf(cfg, hc) ==
    [ kind |-> "health",
      status |-> HealthStatus(cfg),
      config |-> [ loaded |-> configError = Null, error |-> configError ],
      packages |->
        [ k \in DOMAIN cfg.packages |->
            [ enabled |-> cfg.packages[k].enabled,
              loaded |-> isLoaded(k),
              loadError |-> loadErrorOf(k),
              validation |-> packageValidation[k],
              healthCheck |-> IF isBriefingPackage(k) /\ briefingModules THEN hc ELSE "none",
              security |-> SecuritySummary(cfg.packages[k]) ] ] ]

\* the JSON orchestrator_health returns
HealthView(hc) == HealthViewOf(config, hc)

\* what the package's runHealthCheck does: it resolves, or it rejects with an
\* Error or with a value that is no Error
HealthOutcomes ==
    { [ kind |-> "resolve", error |-> [ isError |-> FALSE, message |-> "", value |-> 0 ] ] }
      \cup { [ kind |-> "reject", error |-> e ] :
               e \in { [ isError |-> TRUE, message |-> "token expired", value |-> 0 ],
                       [ isError |-> FALSE, message |-> "", value |-> 503 ] } }

\* error instanceof Error ? error.message : String(error)
ErrorText(error) == IF error.isError THEN error.message ELSE ToString(error.value)

\* (variant: the delegated health check awaited without try/catch)
DelegatedCheck_NoCatch(o) ==
    IF o.kind = "resolve"
    THEN [ check |-> "ok", escaped |-> FALSE ]
    ELSE [ check |-> "", escaped |-> TRUE ]

\* try { healthCheck = await runHealthCheck({}) } catch (error) { healthCheck
\* = { error: message } }: the entry's healthCheck, and whether the error
\* escaped the handler
DelegatedCheck(o) ==
    IF o.kind = "resolve"
    THEN [ check |-> "ok", escaped |-> FALSE ]
    ELSE [ check |-> "error: " \o ErrorText(o.error), escaped |-> FALSE ]

\* the handler delegates a health check: some configured name is a briefing
\* name and the briefing modules are set
DelegatesCheck == \E k \in DOMAIN config.packages : isBriefingPackage(k) /\ briefingModules

\* what a health check may have left in an entry
HealthChecks == { DelegatedCheck(o).check : o \in HealthOutcomes }

-----------------------------------------------------------------------------
(* Initialization: main() runs initialize() and then start().              *)

NoArgs == [ p \in {} |-> "" ]

\* no declarations handed to the registry (the hub registers its own tools)
NoDecl == [ tools |-> << >>, next |-> 1 ]

NoView == [ kind |-> "none" ]

NoError == [ isError |-> FALSE, message |-> "", value |-> 0 ]

\* a call slot: the call's arguments, what its handler did, what it returned
\* (result: the text of a package tool; view: the view of a meta tool) and
\* the position in the log of the record written for it (0: none)
IdleCall ==
    [ st |-> "idle", name |-> Null, args |-> NoArgs, start |-> 0, invoked |-> 0,
      handlerArgs |-> NoArgs, threw |-> FALSE, error |-> NoError, result |-> << >>,
      view |-> NoView, outcome |-> "none", rejected |-> FALSE, logged |-> 0, rec |-> 0,
      steps |-> << >> ]

\* the state after construction, in an environment drawn from files and disks
InitWith(files, disks) ==
    /\ pc = "constructed"
    /\ configFile \in files
    /\ disk \in { d \in [ PackageKeys -> disks \cup {"no_path"} ] :
                    \A k \in DOMAIN d :
                        IF k \in DOMAIN configFile.packages
                        THEN d[k] \in disks ELSE d[k] = "no_path" }
    /\ config = NoConfig
    /\ configError = Null
    /\ packageValidation = << >>
    /\ briefingModules = FALSE
    /\ briefingLoadError = << >>
    /\ sheetsModules = FALSE
    /\ sheetsLoadError = << >>
    /\ imported = {}
    /\ decl = NoDecl
    /\ registered = << >>
    /\ calls = [ i \in 1..MaxCalls |-> IdleCall ]
    /\ log = << >>
    /\ now = 0
    /\ fatal = FALSE

Init == InitWith(CoreFiles, {"built", "not_built"})

\* (variant: the configuration error escaping initialize())
TryLoadConfig_NoCatch(r) ==
    IF r.ok
    THEN [ pc |-> "configLoaded", config |-> r.value, configError |-> Null ]
    ELSE [ pc |-> "failed", config |-> EmptyConfig, configError |-> r.error ]

\* try { this.config = await loadConfig() } catch (error) { this.configError =
\* message; this.config = empty }: where initialize() stands afterwards
TryLoadConfig(r) ==
    IF r.ok
    THEN [ pc |-> "configLoaded", config |-> r.value, configError |-> Null ]
    ELSE [ pc |-> "configLoaded", config |-> EmptyConfig, configError |-> r.error ]

LoadConfigStep ==
    /\ pc = "constructed"
    /\ pc' = TryLoadConfig(loadConfig(configFile)).pc
    /\ config' = TryLoadConfig(loadConfig(configFile)).config
    /\ configError' = TryLoadConfig(loadConfig(configFile)).configError
    /\ UNCHANGED << configFile, disk, decl, imported, packageValidation, briefingModules, briefingLoadError,
                    sheetsModules, sheetsLoadError, registered, calls, log, now, fatal >>

\* this.packageValidation = await validatePackages(this.config)
ValidateStep ==
    /\ pc = "configLoaded"
    /\ pc' = "validated"
    /\ packageValidation' = validatePackages(config, disk)
    /\ UNCHANGED << configFile, disk, decl, imported, config, configError, briefingModules, briefingLoadError,
                    sheetsModules, sheetsLoadError, registered, calls, log, now, fatal >>

\* if (briefingConfig) await this.loadBriefingModules(briefingConfig.path)
LoadBriefingStep ==
    /\ pc = "validated"
    /\ pc' = "briefingDone"
    /\ IF BriefingKey(config) # Null
       THEN LET r == LoadModules(disk[BriefingKey(config)], config.packages[BriefingKey(config)].path)
            IN  /\ briefingModules' = r.modules
                /\ briefingLoadError' = r.loadError
                /\ imported' = imported \cup { config.packages[BriefingKey(config)].path }
       ELSE UNCHANGED << briefingModules, briefingLoadError, imported >>
    /\ UNCHANGED << configFile, disk, decl, config, configError, packageValidation,
                    sheetsModules, sheetsLoadError, registered, calls, log, now, fatal >>

\* (variant: the sheets package loaded only when the briefing load went well)
LoadSheetsStep_AfterBriefing ==
    /\ pc = "briefingDone"
    /\ pc' = "sheetsDone"
    /\ IF SheetsKey(config) # Null /\ briefingLoadError = << >>
       THEN LET r == LoadModules(disk[SheetsKey(config)], config.packages[SheetsKey(config)].path)
            IN  /\ sheetsModules' = r.modules
                /\ sheetsLoadError' = r.loadError
                /\ imported' = imported \cup { config.packages[SheetsKey(config)].path }
       ELSE UNCHANGED << sheetsModules, sheetsLoadError, imported >>
    /\ UNCHANGED << configFile, disk, decl, config, configError, packageValidation,
                    briefingModules, briefingLoadError, registered, calls, log, now, fatal >>

\* if (sheetsConfig) await this.loadSheetsModules(sheetsConfig.path)
LoadSheetsStep ==
    /\ pc = "briefingDone"
    /\ pc' = "sheetsDone"
    /\ IF SheetsKey(config) # Null
       THEN LET r == LoadModules(disk[SheetsKey(config)], config.packages[SheetsKey(config)].path)
            IN  /\ sheetsModules' = r.modules
                /\ sheetsLoadError' = r.loadError
                /\ imported' = imported \cup { config.packages[SheetsKey(config)].path }
       ELSE UNCHANGED << sheetsModules, sheetsLoadError, imported >>
    /\ UNCHANGED << configFile, disk, decl, config, configError, packageValidation,
                    briefingModules, briefingLoadError, registered, calls, log, now, fatal >>

\* this.setupTools(); this.setupErrorHandling(): initialize() resolves
SetupToolsStep ==
    /\ pc = "sheetsDone"
    /\ pc' = "initialized"
    /\ registered' = setupTools(config, briefingModules, sheetsModules)
    /\ UNCHANGED << configFile, disk, decl, imported, config, configError, packageValidation,
                    briefingModules, briefingLoadError, sheetsModules, sheetsLoadError,
                    calls, log, now, fatal >>

\* (variant: start() not awaiting the end of initialize())
StartStep_Early ==
    /\ pc \in {"validated", "briefingDone", "sheetsDone", "initialized"}
    /\ pc' = "serving"
    /\ UNCHANGED << configFile, disk, decl, hubVars, calls, log, now, fatal >>

\* await server.start(): the transport is connected
StartStep ==
    /\ pc = "initialized"
    /\ pc' = "serving"
    /\ UNCHANGED << configFile, disk, decl, hubVars, calls, log, now, fatal >>

-----------------------------------------------------------------------------
(* GuardrailPipeline (spec.md 4.3) around the tool handlers of             *)
(* setupBriefingTools and setupSheetsTools.                                *)

\* the values a caller passes for a scoped parameter
ArgValues == {"abc123", "evil_spreadsheet"}

\* a number sent where the schema asks for a string
NumberValue == "<number 42>"

\* the argument objects a call to the tool may carry
ArgsOf(t) == UNION { [ S -> ArgValues \cup {NumberValue} ] : S \in SUBSET SchemaParams(t) }

\* (variant: only the type of the parameters that are present checked)
ValidateParams_PresentOnly(t, args) ==
    \A p \in DOMAIN args : args[p] # NumberValue

\* step 1, parameter validation against the tool's schema (z.string() for
\* every parameter modelled): each is present and is a string
ValidateParams(t, args) ==
    \A p \in SchemaParams(t) : p \in DOMAIN args /\ args[p] # NumberValue

\* the rejection a call with malformed arguments gets
RejectionText(name) == << "Invalid arguments for tool ", name >>

\* the number of times the steps start the real handler
HandlerStarts(steps) == Cardinality({ k \in DOMAIN steps : steps[k] = "handler" })

\* (variant: the handler started before the scoping step)
PipelineSteps_HandlerFirst(valid, denied) ==
    IF ~valid THEN << "validate" >>
    ELSE IF denied THEN << "validate", "handler", "scope", "audit" >>
    ELSE << "validate", "handler", "scope" >>

\* the steps of the pipeline a call goes through up to the handler's await
PipelineSteps(valid, denied) ==
    IF ~valid THEN << "validate" >>
    ELSE IF denied THEN << "validate", "scope", "audit" >>
    ELSE << "validate", "scope", "handler" >>

\* (variant: an empty allowed list read as no restriction)
ScopeDenied_EmptyOpen(policy, args) ==
    /\ policy.resource_scope.set
    /\ policy.resource_scope.allowed # {}
    /\ policy.resource_scope.param \in DOMAIN args
    /\ args[policy.resource_scope.param] \notin policy.resource_scope.allowed

\* (variant: a call without the scoped parameter denied)
ScopeDenied_AbsentDenied(policy, args) ==
    /\ policy.resource_scope.set
    /\ \/ policy.resource_scope.param \notin DOMAIN args
       \/ args[policy.resource_scope.param] \notin policy.resource_scope.allowed

\* step 2, resource scoping: the scoped parameter is present and its value
\* is not a member of the allowed list
ScopeDenied(policy, args) ==
    /\ policy.resource_scope.set
    /\ policy.resource_scope.param \in DOMAIN args
    /\ args[policy.resource_scope.param] \notin policy.resource_scope.allowed

\* args[param]: the value, or undefined
ArgValue(args, p) == IF p \in DOMAIN args THEN args[p] ELSE "undefined"

\* (variant: the denial naming a permitted value)
DenialText_Leak(policy, args) ==
    << "Access denied", ": ", policy.resource_scope.param, " = ",
       ArgValue(args, policy.resource_scope.param), " is not one of ",
       IF policy.resource_scope.allowed = {} THEN ""
       ELSE CHOOSE a \in policy.resource_scope.allowed : TRUE >>

\* the denial result: names the parameter and the rejected value
DenialText(policy, args) ==
    << "Access denied", ": ", policy.resource_scope.param, " = ",
       ArgValue(args, policy.resource_scope.param), " is outside the configured scope" >>

\* (variant: the handler reading a key the caller did not send)
DelegateArgs_WrongKey(t, args) == NoArgs

\* the arguments a handler receives and hands on to the package function
DelegateArgs(t, args) == args

\* what the package function (or, for import_read_later, osascript) does
Thrown ==
    { [ isError |-> TRUE, message |-> "API unavailable", value |-> 0 ],
      [ isError |-> FALSE, message |-> "", value |-> 503 ] }

HandlerOutcomes(t) ==
    { [ kind |-> "resolve", error |-> e ] : e \in { CHOOSE x \in Thrown : x.isError } }
      \cup { [ kind |-> "reject", error |-> e ] : e \in Thrown }
      \cup (IF t = "import_read_later"
            THEN { [ kind |-> k, error |-> e ] :
                     k \in {"execFail", "noItems"}, e \in { CHOOSE x \in Thrown : x.isError } }
            ELSE {})

\* formatError: error.message of an Error, String(error) of anything else
formatError(error) == IF error.isError THEN error.message ELSE ToString(error.value)

\* the text a handler builds from the package function's value
FormatResult(t) ==
    CASE t \in {"run_weekly_digest", "run_rss_digest"} -> << "result" >>
      [] t = "content_feed_status" -> << "## Content Feed Status", "summary" >>
      [] t \in {"health_check", "list_sheets", "get_data"} -> << "JSON", "result" >>
      [] t = "clear_state" -> << "## State Cleared", "result" >>
      [] t = "save_for_later" -> << "Saved for next digest: ", "title" >>
      [] t = "import_read_later" -> << "## Imported from Read Later", "items" >>
      [] t \in {"update_cells", "batch_update"} -> << "Updated ", "n", " cells" >>
      [] t = "append_rows" -> << "Appended ", "n", " rows." >>
      [] OTHER -> << "Created sheet ", "title" >>

\* (variant: a handler without its try/catch)
HandlerResult_NoCatch(t, o) ==
    CASE o.kind = "resolve" ->
           [ text |-> FormatResult(t), outcome |-> "allowed", threw |-> FALSE,
             rejected |-> FALSE ]
      [] o.kind = "reject" ->
           [ text |-> << >>, outcome |-> "errored", threw |-> TRUE, rejected |-> TRUE ]
      [] o.kind = "execFail" ->
           [ text |-> << "Error reading Read Later reminders: ", formatError(o.error) >>,
             outcome |-> "allowed", threw |-> FALSE, rejected |-> FALSE ]
      [] OTHER ->
           [ text |-> << "No open items in Read Later list." >>,
             outcome |-> "allowed", threw |-> FALSE, rejected |-> FALSE ]

\* the body of a tool handler from its await on: try { ... } catch (error)
\* { return Error: + formatError(error) }
HandlerResult(t, o) ==
    CASE o.kind = "resolve" ->
           [ text |-> FormatResult(t), outcome |-> "allowed", threw |-> FALSE,
             rejected |-> FALSE ]
      [] o.kind = "reject" ->
           [ text |-> << "Error: ", formatError(o.error) >>, outcome |-> "errored",
             threw |-> TRUE, rejected |-> FALSE ]
      [] o.kind = "execFail" ->
           [ text |-> << "Error reading Read Later reminders: ", formatError(o.error) >>,
             outcome |-> "allowed", threw |-> FALSE, rejected |-> FALSE ]
      [] OTHER ->
           [ text |-> << "No open items in Read Later list." >>,
             outcome |-> "allowed", threw |-> FALSE, rejected |-> FALSE ]

\* settings.log_invocations
LogInvocations == config.settings.set /\ config.settings.log_invocations

\* the InvocationRecord of a call started at start and finished at end
InvocationRecord(reg, start, end, outcome) ==
    [ ts |-> end, package |-> reg.package, tool |-> reg.tool,
      duration_ms |-> end - start, outcome |-> outcome ]

\* JSON.stringify of an InvocationRecord, as the sequence of its tokens
Stringify(rec) ==
    << "{", "ts", ToString(rec.ts), "package", rec.package, "tool", rec.tool,
       "duration_ms", ToString(rec.duration_ms), "outcome", rec.outcome, "}" >>

\* one write of a record: the destination it goes to and the line written,
\* the serialised record and a line feed
Written(rec, dest) ==
    [ ts |-> rec.ts, package |-> rec.package, tool |-> rec.tool,
      duration_ms |-> rec.duration_ms, outcome |-> rec.outcome,
      dest |-> dest, line |-> Stringify(rec) \o << "\n" >> ]

\* settings.log_file is set: the records go to the log file's stream
LogToFile == config.settings.set /\ config.settings.log_file.set

\* (variant: the log file gets a copy, stderr still gets every record)
Emit_Tee(l, rec) ==
    IF LogToFile
    THEN Append(Append(l, Written(rec, "stderr")), Written(rec, "file"))
    ELSE Append(l, Written(rec, "stderr"))

\* a record goes to the log file when there is one, to stderr otherwise
Emit(l, rec) ==
    IF LogToFile THEN Append(l, Written(rec, "file")) ELSE Append(l, Written(rec, "stderr"))

\* (variant: records written whatever settings.log_invocations says)
Audit_Unconditional(l, reg, start, end, outcome) ==
    Emit(l, InvocationRecord(reg, start, end, outcome))

\* (variant: a record dropped when another handler is suspended at its await)
Audit_DropsWhenInterleaved(l, reg, start, end, outcome) ==
    IF LogInvocations /\ Cardinality({ j \in DOMAIN calls : calls[j].st = "running" }) < 2
    THEN Emit(l, InvocationRecord(reg, start, end, outcome)) ELSE l

\* step 4, audit logging
Audit(l, reg, start, end, outcome) ==
    IF LogInvocations THEN Emit(l, InvocationRecord(reg, start, end, outcome)) ELSE l

\* (variant: denials left out of the log)
AuditDenial_Skip(l, reg, t) == l

\* the audit of a call that scoping denied at time t
AuditDenial(l, reg, t) == Audit(l, reg, t, t, "denied")

IsPackageTool(name) == Registration(name).package # "orchestrator"

NextSlot(i) == calls[i].st = "idle" /\ \A j \in 1..(i - 1) : calls[j].st # "idle"

\* a call to a package tool, up to the handler's await: scoping, then the
\* delegated call (or the denial, which ends the call here)
Invoke(i) ==
    /\ pc = "serving"
    /\ NextSlot(i)
    /\ \E name \in RegisteredNames :
         /\ IsPackageTool(name)
         /\ \E a \in ArgsOf(Registration(name).tool) :
              LET reg == Registration(name)
                  valid == ValidateParams(reg.tool, a)
                  denied == valid /\ ScopeDenied(reg.policy, a)
                  steps == PipelineSteps(valid, denied)
                  newLog == IF denied THEN AuditDenial(log, reg, now) ELSE log
              IN  /\ calls' =
                       [ calls EXCEPT ![i] =
                           IF ~valid
                           THEN [ @ EXCEPT !.st = "invalid", !.name = name, !.args = a,
                                           !.start = now,
                                           !.result = RejectionText(name),
                                           !.outcome = "invalid",
                                           !.invoked = HandlerStarts(steps),
                                           !.steps = steps ]
                           ELSE IF denied
                           THEN [ @ EXCEPT !.st = "done", !.name = name, !.args = a,
                                           !.start = now,
                                           !.result = DenialText(reg.policy, a),
                                           !.outcome = "denied",
                                           !.logged = Len(newLog) - Len(log),
                                           !.rec = IF Len(newLog) > Len(log)
                                                   THEN Len(newLog) ELSE 0,
                                           !.invoked = HandlerStarts(steps),
                                           !.steps = steps ]
                           ELSE [ @ EXCEPT !.st = "running", !.name = name, !.args = a,
                                           !.start = now,
                                           !.invoked = HandlerStarts(steps),
                                           !.handlerArgs = DelegateArgs(reg.tool, a),
                                           !.steps = steps ] ]
                  /\ log' = newLog
    /\ UNCHANGED << pc, configFile, disk, decl, hubVars, now, fatal >>

\* (variant: the handlers resumed strictly in the order the calls came in)
Resumable_InOrder(i) ==
    /\ calls[i].st = "running"
    /\ \A j \in 1..(i - 1) : calls[j].st \in {"done", "invalid"}

\* the handler of this call is suspended at its await and is resumed as soon
\* as the awaited function settles, whatever the other calls are doing
Resumable(i) == calls[i].st = "running"

\* the awaited package function settles: the handler's result, then the audit
Complete(i) ==
    /\ pc = "serving"
    /\ Resumable(i)
    /\ \E o \in HandlerOutcomes(Registration(calls[i].name).tool), end \in now..(now + 1) :
         LET reg == Registration(calls[i].name)
             r == HandlerResult(reg.tool, o)
             newLog == Audit(log, reg, calls[i].start, end, r.outcome)
         IN  /\ end <= MaxClock
             /\ now' = end
             /\ calls' = [ calls EXCEPT ![i] =
                             [ @ EXCEPT !.st = "done", !.result = r.text,
                                        !.threw = r.threw,
                                        !.error = IF r.threw THEN o.error ELSE NoError,
                                        !.outcome = r.outcome,
                                        !.rejected = r.rejected,
                                        !.logged = Len(newLog) - Len(log),
                                        !.rec = IF Len(newLog) > Len(log)
                                                THEN Len(newLog) ELSE 0,
                                        !.steps = @ \o << "audit" >> ] ]
             /\ log' = newLog
             /\ fatal' = (fatal \/ r.rejected)
    /\ UNCHANGED << pc, configFile, disk, decl, hubVars >>

\* (variant: the health handler keeping what the delegated check gave as the
\* package's load error)
MetaInvoke_RecordsCheck(i) ==
    /\ pc = "serving"
    /\ NextSlot(i)
    /\ \E name \in RegisteredNames :
         /\ ~IsPackageTool(name)
         /\ \E o \in HealthOutcomes :
              LET d == DelegatedCheck(o)
                  delegated == Registration(name).tool = "health" /\ DelegatesCheck
                  thrown == delegated /\ o.kind = "reject"
                  escapes == delegated /\ d.escaped
              IN  /\ calls' = [ calls EXCEPT ![i] =
                                 IF escapes
                                 THEN [ @ EXCEPT !.st = "done", !.name = name, !.start = now,
                                                 !.rejected = TRUE ]
                                 ELSE [ @ EXCEPT !.st = "done", !.name = name, !.start = now,
                                                 !.threw = thrown,
                                                 !.error = IF thrown THEN o.error ELSE NoError,
                                                 !.view = IF Registration(name).tool = "status"
                                                          THEN StatusView
                                                          ELSE HealthView(d.check) ] ]
                  /\ briefingLoadError' =
                       IF Registration(name).tool = "health" /\ d.check # "ok"
                       THEN << d.check >> ELSE briefingLoadError
    /\ UNCHANGED << pc, configFile, disk, decl, config, configError, packageValidation,
                    briefingModules, sheetsModules, sheetsLoadError, imported, registered,
                    log, now, fatal >>

\* a call to orchestrator_status or orchestrator_health
MetaInvoke(i) ==
    /\ pc = "serving"
    /\ NextSlot(i)
    /\ \E name \in RegisteredNames :
         /\ ~IsPackageTool(name)
         /\ \E o \in HealthOutcomes :
              LET d == DelegatedCheck(o)
                  delegated == Registration(name).tool = "health" /\ DelegatesCheck
                  thrown == delegated /\ o.kind = "reject"
                  escapes == delegated /\ d.escaped
              IN  calls' = [ calls EXCEPT ![i] =
                               IF escapes
                               THEN [ @ EXCEPT !.st = "done", !.name = name, !.start = now,
                                               !.rejected = TRUE ]
                               ELSE [ @ EXCEPT !.st = "done", !.name = name, !.start = now,
                                               !.threw = thrown,
                                               !.error = IF thrown THEN o.error ELSE NoError,
                                               !.view = IF Registration(name).tool = "status"
                                                        THEN StatusView
                                                        ELSE HealthView(d.check) ] ]
    /\ UNCHANGED << pc, configFile, disk, decl, hubVars, log, now, fatal >>

Next ==
    \/ LoadConfigStep
    \/ ValidateStep
    \/ LoadBriefingStep
    \/ LoadSheetsStep
    \/ SetupToolsStep
    \/ StartStep
    \/ \E i \in 1..MaxCalls : Invoke(i)
    \/ \E i \in 1..MaxCalls : Complete(i)
    \/ \E i \in 1..MaxCalls : MetaInvoke(i)

Spec == Init /\ [][Next]_vars

-----------------------------------------------------------------------------
(* Handlers that never settle: the hub puts no timeout on the package      *)
(* function a handler awaits.                                              *)

\* the package function awaited by this call will never settle
Hang(i) ==
    /\ pc = "serving"
    /\ calls[i].st = "running"
    /\ calls' = [ calls EXCEPT ![i] = [ @ EXCEPT !.st = "hung" ] ]
    /\ UNCHANGED << pc, configFile, disk, decl, hubVars, log, now, fatal >>

\* both packages built, sheets scoped, every invocation logged
HangFiles ==
    { Doc(Present(RawPolicy("briefing", NoBool, NoBool, NoSet, NoScope)),
          Present(RawPolicy("sheets", NoBool, NoBool, NoSet, rs)),
          Settings(Some(TRUE))) :
        rs \in { NoScope, Scope("spreadsheet_id", {"abc123"}) } }

InitHang == InitWith(HangFiles, {"built"})

NextHang ==
    \/ LoadConfigStep
    \/ ValidateStep
    \/ LoadBriefingStep
    \/ LoadSheetsStep
    \/ SetupToolsStep
    \/ StartStep
    \/ \E i \in 1..MaxCalls : Invoke(i)
    \/ \E i \in 1..MaxCalls : Complete(i)
    \/ \E i \in 1..MaxCalls : Hang(i)
    \/ \E i \in 1..MaxCalls : MetaInvoke(i)

\* the event loop runs every continuation that is ready: a handler whose
\* awaited function can settle is resumed
SpecHang ==
    /\ InitHang
    /\ [][NextHang]_vars
    /\ \A i \in 1..MaxCalls : WF_vars(Complete(i))

-----------------------------------------------------------------------------
(* main() when initialize() may reject: an error escaping one of its       *)
(* unguarded calls (validatePackages, setupTools) ends in main's catch,     *)
(* which exits the process.                                                 *)

\* initialize() rejects: main().catch logs and exits
InitializeRejects ==
    /\ pc \in {"configLoaded", "sheetsDone"}
    /\ pc' = "failed"
    /\ UNCHANGED << configFile, disk, decl, hubVars, calls, log, now, fatal >>

NextMain ==
    \/ LoadConfigStep
    \/ ValidateStep
    \/ LoadBriefingStep
    \/ LoadSheetsStep
    \/ SetupToolsStep
    \/ InitializeRejects
    \/ StartStep
    \/ \E i \in 1..MaxCalls : Invoke(i)
    \/ \E i \in 1..MaxCalls : Complete(i)
    \/ \E i \in 1..MaxCalls : MetaInvoke(i)

SpecMain == Init /\ [][NextMain]_vars

-----------------------------------------------------------------------------
(* Startup under any configuration: the initialization steps and the meta  *)
(* tools, in an environment drawn from a wide family of configurations.    *)

OptBools == { NoBool, Some(TRUE), Some(FALSE) }

\* allowed_tools: omitted, or a list of at most MaxAllowlist of the names
Allowlists(names) ==
    { NoSet } \cup { Some(a) : a \in { x \in SUBSET names : Cardinality(x) <= MaxAllowlist } }

RegistryBriefing ==
    { Absent }
      \cup { Present(RawPolicy("briefing", en, aw, at, NoScope)) :
               en \in {NoBool, Some(FALSE)}, aw \in OptBools,
               at \in Allowlists({"content_feed_status", "save_for_later", "ghost_tool"}) }

RegistrySheets ==
    { Absent }
      \cup { Present(RawPolicy("sheets", en, aw, at, NoScope)) :
               en \in {NoBool, Some(FALSE)}, aw \in OptBools,
               at \in Allowlists({"list_sheets", "update_cells", "ghost_tool"}) }

RegistryFiles ==
    BadFiles \cup { Doc(b, s, NoSettings) : b \in RegistryBriefing, s \in RegistrySheets }

InitRegistry == InitWith(RegistryFiles, DiskStates)

NextRegistry ==
    \/ LoadConfigStep
    \/ ValidateStep
    \/ LoadBriefingStep
    \/ LoadSheetsStep
    \/ SetupToolsStep
    \/ StartStep
    \/ \E i \in 1..MaxCalls : MetaInvoke(i)

SpecRegistry == InitRegistry /\ [][NextRegistry]_vars

-----------------------------------------------------------------------------
(* The meta views under any package map: the initialization steps and the   *)
(* meta tools, in an environment whose configuration may use any of the     *)
(* package keys, enabled or disabled, over any state of their directories.  *)

DocOf(pkgs, st) == [ kind |-> "ok", packages |-> pkgs, settings |-> st ]

StatusScopes ==
    { NoScope, Scope("spreadsheet_id", {"abc123"}), Scope("spreadsheet_id", {"def456"}) }

\* the policies config.yaml may state under the key k
StatusPolicies(k) ==
    IF k = "sheets"
    THEN { RawPolicy(k, en, aw, NoSet, rs) :
             en \in {NoBool, Some(FALSE)}, aw \in {NoBool, Some(TRUE)}, rs \in StatusScopes }
    ELSE { RawPolicy(k, en, NoBool, NoSet, NoScope) : en \in {NoBool, Some(FALSE)} }

PackageMaps ==
    UNION { { f \in [ K -> UNION { StatusPolicies(k) : k \in K } ] :
                \A k \in K : f[k] \in StatusPolicies(k) } : K \in SUBSET PackageKeys }

StatusFiles == BadFiles \cup { DocOf(f, NoSettings) : f \in PackageMaps }

InitStatus == InitWith(StatusFiles, DiskStates)

NextStatus ==
    \/ LoadConfigStep
    \/ ValidateStep
    \/ LoadBriefingStep
    \/ LoadSheetsStep
    \/ SetupToolsStep
    \/ StartStep
    \/ \E i \in 1..MaxCalls : MetaInvoke(i)

SpecStatus == InitStatus /\ [][NextStatus]_vars

-----------------------------------------------------------------------------
(* The loaders over every way an import can fail: the directory states,    *)
(* and a dist whose entry links to a file that is gone (the import rejects *)
(* with a module-not-found message that quotes ENOENT).                    *)

LoadKeys == {"briefing", "newsletter", "sheets"}

\* the policies config.yaml may state under the key k
LoadPolicies(k) == { RawPolicy(k, en, NoBool, NoSet, NoScope) : en \in {NoBool, Some(FALSE)} }

LoadMaps ==
    UNION { { f \in [ K -> UNION { LoadPolicies(k) : k \in K } ] :
                \A k \in K : f[k] \in LoadPolicies(k) } : K \in SUBSET LoadKeys }

LoadFiles == { DocOf(f, NoSettings) : f \in LoadMaps }

InitLoad == InitWith(LoadFiles, DiskStates \cup {"dangling"})

NextLoad ==
    \/ LoadConfigStep
    \/ ValidateStep
    \/ LoadBriefingStep
    \/ LoadSheetsStep
    \/ SetupToolsStep
    \/ StartStep
    \/ \E i \in 1..MaxCalls : MetaInvoke(i)

SpecLoad == InitLoad /\ [][NextLoad]_vars

-----------------------------------------------------------------------------
(* The registry alone (spec.md 4.2 step 4): tool declarations of packages   *)
(* under arbitrary configuration keys, bound one after the other.           *)

\* configuration keys and tool names, two of whose concatenations coincide:
\* sheets + _ + list_sheets = sheets_list + _ + sheets
DeclKeys == {"sheets", "sheets_list"}
DeclTools == {"list_sheets", "sheets", "get_data"}

Declarations == [ package : DeclKeys, tool : DeclTools ]

\* the sequences of at most MaxDecl declarations
DeclSeqs == UNION { [ 1..n -> Declarations ] : n \in 0..MaxDecl }

\* the policy of the package under key k
DeclPolicy(k) ==
    [ path |-> "/opt/mcp/" \o k, enabled |-> TRUE, allow_writes |-> FALSE,
      allowed_tools |-> NoSet, resource_scope |-> NoScope ]

\* the binding asked for by the n-th declaration: its fullName, its policy and
\* its handler (identified by n)
DeclEntry(d, n) ==
    [ name |-> d.package \o "_" \o d.tool, package |-> d.package, tool |-> d.tool,
      policy |-> DeclPolicy(d.package), handler |-> n ]

InitCollision ==
    /\ pc = "registering"
    /\ configFile = DocOf(<< >>, NoSettings)
    /\ disk = [ k \in PackageKeys |-> "no_path" ]
    /\ config = EmptyConfig
    /\ configError = Null
    /\ packageValidation = << >>
    /\ briefingModules = FALSE
    /\ briefingLoadError = << >>
    /\ sheetsModules = FALSE
    /\ sheetsLoadError = << >>
    /\ imported = {}
    /\ decl \in { [ tools |-> t, next |-> 1 ] : t \in DeclSeqs }
    /\ registered = << >>
    /\ calls = [ i \in 1..MaxCalls |-> IdleCall ]
    /\ log = << >>
    /\ now = 0
    /\ fatal = FALSE

\* the registry binds the next declaration, or rejects it
RegisterStep ==
    /\ pc = "registering"
    /\ decl.next <= Len(decl.tools)
    /\ registered' = RegisterTool(registered, DeclEntry(decl.tools[decl.next], decl.next))
    /\ decl' = [ decl EXCEPT !.next = @ + 1 ]
    /\ UNCHANGED << pc, configFile, disk, config, configError, packageValidation,
                    briefingModules, briefingLoadError, sheetsModules, sheetsLoadError,
                    imported, calls, log, now, fatal >>

NextCollision == RegisterStep

SpecCollision == InitCollision /\ [][NextCollision]_vars

-----------------------------------------------------------------------------
(* The registry with the hub's own tools: setupTools binds the tools of    *)
(* the packages first and orchestrator_status, orchestrator_health last.    *)

\* configuration keys and tool names, two of whose concatenations are the
\* names of the meta tools
MetaDeclKeys == {"orchestrator", "sheets"}
MetaDeclTools == {"status", "health", "list_sheets"}

MetaDeclSeqs ==
    UNION { [ 1..n -> [ package : MetaDeclKeys, tool : MetaDeclTools ] ] : n \in 0..MaxDecl }

InitMeta ==
    /\ pc = "registering"
    /\ configFile = DocOf(<< >>, NoSettings)
    /\ disk = [ k \in PackageKeys |-> "no_path" ]
    /\ config = EmptyConfig
    /\ configError = Null
    /\ packageValidation = << >>
    /\ briefingModules = FALSE
    /\ briefingLoadError = << >>
    /\ sheetsModules = FALSE
    /\ sheetsLoadError = << >>
    /\ imported = {}
    /\ decl \in { [ tools |-> t, next |-> 1 ] : t \in MetaDeclSeqs }
    /\ registered = << >>
    /\ calls = [ i \in 1..MaxCalls |-> IdleCall ]
    /\ log = << >>
    /\ now = 0
    /\ fatal = FALSE

\* after the package tools, the two meta tools, under the same collision rule
RegisterMetaTools ==
    /\ pc = "registering"
    /\ decl.next > Len(decl.tools)
    /\ registered' = RegisterAll(registered, << MetaTool("status"), MetaTool("health") >>)
    /\ pc' = "initialized"
    /\ UNCHANGED << configFile, disk, config, configError, packageValidation,
                    briefingModules, briefingLoadError, sheetsModules, sheetsLoadError,
                    imported, decl, calls, log, now, fatal >>

NextMeta == RegisterStep \/ RegisterMetaTools

SpecMeta == InitMeta /\ [][NextMeta]_vars

-----------------------------------------------------------------------------
(* Properties.                                                             *)

Initialized == pc \in {"initialized", "serving"}

\* the policy of a configured package as the configuration file states it
RawOf(k) == configFile.packages[k]

WritesOn(k) == RawOf(k).allow_writes.set /\ RawOf(k).allow_writes.val

\* the tools the package behind a configuration key declares
DeclaredTools(k) ==
    IF isBriefingPackage(k) THEN Range(BriefingTools)
    ELSE IF isSheetsPackage(k) THEN Range(SheetsTools)
    ELSE {}

FullName(k, t) == k \o "_" \o t

MetaNames == {"orchestrator_status", "orchestrator_health"}

LoadedPackages == { k \in DOMAIN configFile.packages : isLoaded(k) }

ExpectedNames(k) ==
    { FullName(k, t) :
        t \in { x \in DeclaredTools(k) :
                  /\ ~RawOf(k).allowed_tools.set \/ x \in RawOf(k).allowed_tools.val
                  /\ ~(x \in MutatingTools) \/ WritesOn(k) } }

InitializeNext ==
    \/ LoadConfigStep
    \/ ValidateStep
    \/ LoadBriefingStep
    \/ LoadSheetsStep
    \/ SetupToolsStep
    \/ StartStep

\* C10. Meta operations are always available: whatever the configuration
\* file (missing, unparsable, invalid, no packages) and whatever the state
\* of the package directories, initialize() never fails and always has its
\* next step, both meta tools are registered once it is done, and a call to
\* either can be made and returns its view.
C10_MetaAlwaysAvailable ==
    /\ pc # "failed"
    /\ pc # "serving" => ENABLED InitializeNext
    /\ Initialized => MetaNames \subseteq RegisteredNames
    /\ \A i \in 1..MaxCalls :
         /\ pc = "serving" /\ NextSlot(i) => ENABLED MetaInvoke(i)
         /\ calls[i].st = "done" /\ calls[i].name \in MetaNames =>
              /\ ~calls[i].rejected
              /\ calls[i].name = "orchestrator_status" => calls[i].view.kind = "status"
              /\ calls[i].name = "orchestrator_health" => calls[i].view.kind = "health"

\* the configuration file is missing; status and health have both answered
C10_Witness ==
    /\ configFile.kind = "ENOENT"
    /\ \E i, j \in 1..MaxCalls :
         /\ calls[i].st = "done" /\ calls[i].name = "orchestrator_status"
         /\ calls[j].st = "done" /\ calls[j].name = "orchestrator_health"
         /\ calls[j].view.status = "unhealthy"

-----------------------------------------------------------------------------
(* Properties of the invocation pipeline.                                  *)

\* the invocations of package tools that have started, with arguments the
\* tool's schema accepts
PackageCalls ==
    { i \in 1..MaxCalls : calls[i].st \in {"running", "done"} /\ calls[i].name \notin MetaNames }

\* the policy of the package the call's tool belongs to
PolicyOf(i) == Registration(calls[i].name).policy

ScopeOf(i) == PolicyOf(i).resource_scope

\* the call carries the scoped parameter
Addressed(i) == ScopeOf(i).set /\ ScopeOf(i).param \in DOMAIN calls[i].args

ScopedValue(i) == calls[i].args[ScopeOf(i).param]

C4_ScopePass ==
    \A i \in PackageCalls :
        Addressed(i) /\ ScopedValue(i) \in ScopeOf(i).allowed =>
            /\ calls[i].outcome # "denied"
            /\ ~Contains(calls[i].result, "Access denied")
            /\ calls[i].invoked = 1
            /\ calls[i].handlerArgs = calls[i].args

\* sheets_list_sheets called with abc123 under a scope that allows it has
\* returned the handler's result
C4_Witness ==
    \E i \in PackageCalls :
        /\ calls[i].name = "sheets_list_sheets"
        /\ Addressed(i) /\ ScopedValue(i) = "abc123"
        /\ "abc123" \in ScopeOf(i).allowed
        /\ calls[i].st = "done" /\ calls[i].outcome = "allowed"
        /\ calls[i].result = FormatResult("list_sheets")
        /\ calls[i].handlerArgs = calls[i].args

\* C5. Scope default-allow: with resource_scope configured, a call whose
\* arguments do not carry the scoped parameter is never denied and its
\* handler is invoked once, with the caller's arguments.
C5_ScopeDefaultAllow ==
    \A i \in PackageCalls :
        ScopeOf(i).set /\ ScopeOf(i).param \notin DOMAIN calls[i].args =>
            /\ calls[i].outcome # "denied"
            /\ ~Contains(calls[i].result, "Access denied")
            /\ calls[i].invoked = 1
            /\ calls[i].handlerArgs = calls[i].args

\* sheets_list_sheets called without a range under a scope on range has
\* returned the handler's result, though its spreadsheet_id is not a value
\* the scope allows
C5_Witness ==
    \E i \in PackageCalls :
        /\ calls[i].name = "sheets_list_sheets"
        /\ ScopeOf(i) = Scope("range", {"abc123"})
        /\ DOMAIN calls[i].args = {"spreadsheet_id"}
        /\ calls[i].args["spreadsheet_id"] = "evil_spreadsheet"
        /\ calls[i].st = "done" /\ calls[i].outcome = "allowed"
        /\ calls[i].invoked = 1

\* the values an allowed list or an argument may hold
ScopeValues == AllowedValues \cup ArgValues

\* the policy with another allowed list, everything else the same
WithAllowed(policy, a) == [ policy EXCEPT !.resource_scope.allowed = a ]

C7_HandlerErrorsContained ==
    /\ ~fatal
    /\ \A i \in PackageCalls :
         /\ ~calls[i].rejected
         /\ calls[i].st = "done" /\ calls[i].threw =>
              /\ calls[i].result = << "Error: ", formatError(calls[i].error) >>
              /\ calls[i].error.isError => calls[i].result[2] = calls[i].error.message

\* one handler rejected with an Error, another with a value that is no Error
C7_Witness ==
    \E i, j \in PackageCalls :
        /\ calls[i].st = "done" /\ calls[i].threw /\ calls[i].error.isError
        /\ calls[i].result = << "Error: ", "API unavailable" >>
        /\ calls[j].st = "done" /\ calls[j].threw /\ ~calls[j].error.isError
        /\ calls[j].result = << "Error: ", "503" >>
        /\ ~fatal

\* settings.log_invocations is true in the configuration file
LoggingOn ==
    /\ configFile.kind = "ok"
    /\ configFile.settings.set
    /\ configFile.settings.log_invocations.set
    /\ configFile.settings.log_invocations.val

IsPrefix(s, t) == Len(s) <= Len(t) /\ \A k \in DOMAIN s : s[k] = t[k]

\* with logging on, every completed call has its one record, and the records
\* are those of the completed calls
AuditComplete ==
    LoggingOn =>
        /\ \A i \in PackageCalls :
             calls[i].st = "done" =>
                 /\ calls[i].outcome \in {"allowed", "denied", "errored"}
                 /\ calls[i].outcome = "denied" <=> Contains(calls[i].result, "Access denied")
                 /\ calls[i].outcome = "errored" <=> calls[i].threw
                 /\ calls[i].logged = 1
                 /\ calls[i].rec \in DOMAIN log
                 /\ log[calls[i].rec].outcome = calls[i].outcome
                 /\ \A j \in PackageCalls : j # i => calls[j].rec # calls[i].rec
        /\ Len(log) = Cardinality({ i \in PackageCalls : calls[i].st = "done" })

-----------------------------------------------------------------------------
(* Properties of package loading and of the meta views.                    *)

ConfiguredPackages == DOMAIN configFile.packages

\* the package is enabled in the configuration file (enabled defaults to true)
EnabledInFile(k) == ~RawOf(k).enabled.set \/ RawOf(k).enabled.val

\* the names registered on behalf of the package under configuration key k
NamesOf(k) ==
    { registered[i].name : i \in { j \in DOMAIN registered : registered[j].package = k } }

HealthCalls == { i \in 1..MaxCalls : calls[i].st = "done" /\ calls[i].name = "orchestrator_health" }

\* the calls to orchestrator_status that have answered
StatusCalls == { i \in 1..MaxCalls : calls[i].st = "done" /\ calls[i].name = "orchestrator_status" }

\* an enabled package of the configuration file is not loaded
SomeEnabledNotLoaded == \E k \in ConfiguredPackages : EnabledInFile(k) /\ ~isLoaded(k)

ScopeVariants(k) ==
    { [ config EXCEPT !.packages[k] = WithAllowed(@, a) ] :
        a \in { x \in SUBSET ScopeValues :
                  Cardinality(x) = Cardinality(config.packages[k].resource_scope.allowed) } }

ScopedPackages == { k \in ConfiguredPackages : RawOf(k).resource_scope.set }

ClassifiedErrors ==
    { "Package not built? Run npm run build in ", "Package not found at ", "Failed to load: " }

C15_StatusShowsPath ==
    \A i \in StatusCalls :
        \A k \in ConfiguredPackages :
            calls[i].view.packages[k].path = expandPath(RawOf(k).path)

\* what the status view does show: the path of every enabled package,
\* whatever its load state, and no path for a disabled one
C15_PathOfEnabled ==
    \A i \in StatusCalls :
        \A k \in ConfiguredPackages :
            calls[i].view.packages[k].path =
                IF EnabledInFile(k) THEN expandPath(RawOf(k).path) ELSE ""

\* every tool name a package of the hub declares
ToolNames == Range(BriefingTools) \cup Range(SheetsTools)

\* the tools registered under the prefix k
PrefixedBy(k) == { FullName(k, t) : t \in ToolNames } \cap RegisteredNames

DisabledPackages == { k \in ConfiguredPackages : ~EnabledInFile(k) }

\* C16. Disabled packages expose no tools: once initialized, for every
\* package configured with enabled = false no load of its path was attempted
\* and no tool named with its prefix is registered, while orchestrator_status
\* is registered; getEnabledPackages returns exactly the configured packages
\* whose enabled flag is true.
C16_DisabledExposeNothing ==
    Initialized =>
        /\ \A k \in DisabledPackages :
             /\ expandPath(RawOf(k).path) \notin imported
             /\ PrefixedBy(k) = {}
        /\ "orchestrator_status" \in RegisteredNames
        /\ getEnabledPackages(config) = ConfiguredPackages \ DisabledPackages

\* what holds of a disabled package: its path is never imported and no tool
\* is registered on its behalf; the only tools that carry a disabled
\* package's prefix are the briefing_ tools of an enabled, loaded package
\* configured under the legacy newsletter key
C16_DisabledNotLoaded ==
    Initialized =>
        /\ \A k \in DisabledPackages :
             /\ expandPath(RawOf(k).path) \notin imported
             /\ NamesOf(k) = {}
             /\ PrefixedBy(k) # {} =>
                  /\ k = "briefing"
                  /\ "newsletter" \in ConfiguredPackages \ DisabledPackages
                  /\ disk["newsletter"] = "built"
                  /\ PrefixedBy(k) = NamesOf("newsletter")
        /\ "orchestrator_status" \in RegisteredNames
        /\ getEnabledPackages(config) = ConfiguredPackages \ DisabledPackages

\* the registrations made for packages (not the hub's own meta tools)
PackageRegistrations == { i \in DOMAIN registered : registered[i].package # "orchestrator" }

\* C17. Namespacing: once initialized, every tool registered for an enabled,
\* loaded package with configuration key k is registered under exactly
\* k + "_" + the tool's name, and no package tool under any other name.
C17_Namespacing ==
    Initialized =>
        \A i \in PackageRegistrations :
            /\ registered[i].package \in ConfiguredPackages
            /\ EnabledInFile(registered[i].package)
            /\ registered[i].name = FullName(registered[i].package, registered[i].tool)

\* the prefix the hub gives the tools of the package under key k
PrefixOf(k) == IF isBriefingPackage(k) THEN "briefing" ELSE k

\* what holds of the registered names: the prefix is that of the package's
\* kind - briefing_ for the content feed under either of its keys, sheets_
\* for the sheets package - followed by the tool's name
C17_KindPrefix ==
    Initialized =>
        \A i \in PackageRegistrations :
            /\ registered[i].package \in ConfiguredPackages
            /\ EnabledInFile(registered[i].package)
            /\ registered[i].tool \in DeclaredTools(registered[i].package)
            /\ registered[i].name = FullName(PrefixOf(registered[i].package), registered[i].tool)

\* the declarations the registry has processed so far
Processed == 1..(decl.next - 1)

\* the first declaration that asks for the same fullName as the n-th
FirstAsking(n) ==
    CHOOSE m \in 1..n :
        /\ DeclEntry(decl.tools[m], m).name = DeclEntry(decl.tools[n], n).name
        /\ \A l \in 1..(m - 1) :
               DeclEntry(decl.tools[l], l).name # DeclEntry(decl.tools[n], n).name

\* the registered fullNames are pairwise distinct, and every processed
\* declaration's fullName is bound to the handler and policy of the first
\* declaration that asked for it
RegistryUnique ==
    /\ \A i, j \in DOMAIN registered : registered[i].name = registered[j].name => i = j
    /\ \A n \in Processed :
         /\ DeclEntry(decl.tools[n], n).name \in RegisteredNames
         /\ Registration(DeclEntry(decl.tools[n], n).name)
              = DeclEntry(decl.tools[FirstAsking(n)], FirstAsking(n))
    /\ Len(registered) = Cardinality({ DeclEntry(decl.tools[n], n).name : n \in Processed })
         \/ decl = NoDecl

\* C18. Registry uniqueness: after any sequence of registrations the
\* registered fullNames are pairwise distinct; a registration that would bind
\* a fullName already registered (also one that two different (configKey,
\* toolName) pairs concatenate to) is dropped, the earlier binding keeps its
\* handler and policy, and the remaining registrations are made: no step
\* changes or removes a binding made before.
C18_RegistryUnique == [] RegistryUnique /\ [][IsPrefix(registered, registered')]_vars

\* sheets declared list_sheets, then sheets_list declared sheets (the same
\* fullName, dropped), then sheets declared get_data (registered)
C18_Witness ==
    /\ decl.next = 4
    /\ decl.tools = << [ package |-> "sheets", tool |-> "list_sheets" ],
                       [ package |-> "sheets_list", tool |-> "sheets" ],
                       [ package |-> "sheets", tool |-> "get_data" ] >>
    /\ Len(registered) = 2
    /\ registered[1].name = "sheets_list_sheets" /\ registered[1].package = "sheets"
    /\ registered[1].handler = 1
    /\ registered[2].name = "sheets_get_data"

\* the ConfigError code of each way the configuration file can be unusable
CodeOf ==
    [ k \in {"ENOENT", "YAML", "ZOD"} |->
        CASE k = "ENOENT" -> "NOT_FOUND"
          [] k = "YAML"   -> "PARSE_ERROR"
          [] OTHER        -> "VALIDATION_ERROR" ]

\* C19. Configuration failure degrades, never blocks: loadConfig answers a
\* missing file, invalid YAML and a schema violation with a ConfigError
\* coded NOT_FOUND, PARSE_ERROR and VALIDATION_ERROR; after any loadConfig
\* failure initialize() has recorded the error's message, goes on with an
\* empty package map, registers no package tool, and health reports
\* config.loaded = false (and true when the file loaded).
C19_ConfigFailureDegrades ==
    /\ configFile.kind \in DOMAIN CodeOf =>
         /\ ~loadConfig(configFile).ok
         /\ loadConfig(configFile).isConfigError
         /\ loadConfig(configFile).code = CodeOf[configFile.kind]
    /\ loadConfig(configFile).ok <=> configFile.kind = "ok"
    /\ pc # "failed"
    /\ pc # "constructed" /\ configFile.kind # "ok" =>
         /\ configError = loadConfig(configFile).error
         /\ configError # Null
         /\ config.packages = << >>
         /\ imported = {}
    /\ pc # "constructed" /\ configFile.kind = "ok" => configError = Null
    /\ Initialized /\ configFile.kind # "ok" => RegisteredNames = MetaNames
    /\ \A i \in HealthCalls :
         /\ calls[i].view.config.loaded <=> configFile.kind = "ok"
         /\ ~calls[i].view.config.loaded =>
              /\ calls[i].view.config.error = loadConfig(configFile).error
              /\ calls[i].view.packages = << >>

\* the configuration file violates the schema: health has answered with
\* config.loaded = false and the validation error's message
C19_Witness ==
    /\ configFile.kind = "ZOD"
    /\ pc = "serving"
    /\ RegisteredNames = MetaNames
    /\ \E i \in HealthCalls :
         /\ ~calls[i].view.config.loaded
         /\ calls[i].view.config.error = "Config validation failed"

-----------------------------------------------------------------------------
(* Where the invocation records go.                                        *)

\* settings.log_file is set in the configuration file
LogFileSet == configFile.kind = "ok" /\ configFile.settings.set /\ configFile.settings.log_file.set

\* what has been written to one destination, in order
StreamOf(dest) == SelectSeq(log, LAMBDA w : w.dest = dest)

\* the number a decimal numeral stands for
ParseNat(str) == CHOOSE n \in 0..MaxClock : ToString(n) = str

\* JSON.parse of a line: the object of its one serialised record
ParseLine(line) ==
    [ ts |-> ParseNat(line[3]), package |-> line[5], tool |-> line[7],
      duration_ms |-> ParseNat(line[9]), outcome |-> line[11] ]

\* the line is one JSON object followed by its only line feed
OneJsonLine(line) ==
    /\ Len(line) = 13
    /\ line[1] = "{" /\ line[12] = "}" /\ line[13] = "\n"
    /\ \A k \in 1..12 : line[k] # "\n"
    /\ << line[2], line[4], line[6], line[8], line[10] >>
         = << "ts", "package", "tool", "duration_ms", "outcome" >>

-----------------------------------------------------------------------------
(* Order of the pipeline, startup order, frozen state.                     *)

\* every call made to a package tool, whatever became of it
ToolCalls == { i \in 1..MaxCalls : calls[i].st # "idle" /\ calls[i].name \notin MetaNames }

\* the place of a step in the pipeline
StepRank ==
    [ s \in {"validate", "scope", "handler", "audit"} |->
        CASE s = "validate" -> 1 [] s = "scope" -> 2 [] s = "handler" -> 3 [] OTHER -> 4 ]

\* the steps taken are in pipeline order, without repetition, from validation on
InPipelineOrder(steps) ==
    /\ steps # << >> => steps[1] = "validate"
    /\ \A k \in DOMAIN steps : k > 1 => StepRank[steps[k - 1]] < StepRank[steps[k]]

\* the position of a step among the steps taken (0: not taken)
StepAt(steps, s) == IF Contains(steps, s) THEN CHOOSE k \in DOMAIN steps : steps[k] = s ELSE 0

\* the order of the steps each call has taken so far
PipelineOrder ==
    \A i \in ToolCalls :
        LET st == calls[i].steps
            pol == Registration(calls[i].name).policy
        IN  /\ InPipelineOrder(st)
            /\ Contains(st, "handler") <=> calls[i].invoked = 1
            /\ calls[i].invoked \in {0, 1}
            /\ Contains(st, "handler") =>
                 /\ 0 < StepAt(st, "scope") /\ StepAt(st, "scope") < StepAt(st, "handler")
                 /\ ValidateParams(Registration(calls[i].name).tool, calls[i].args)
                 /\ ~ScopeDenied(pol, calls[i].args)
            /\ Contains(st, "scope") => StepAt(st, "validate") = 1
            /\ calls[i].outcome = "denied" => st = << "validate", "scope", "audit" >>
            /\ calls[i].st = "running" => st = << "validate", "scope", "handler" >>
            /\ calls[i].st = "running" => calls[i].logged = 0 /\ calls[i].rec = 0
            /\ calls[i].st = "done" /\ calls[i].outcome # "denied" =>
                 st = << "validate", "scope", "handler", "audit" >>
            /\ calls[i].rec # 0 =>
                 /\ calls[i].st = "done"
                 /\ st[Len(st)] = "audit"
                 /\ log[calls[i].rec].ts >= calls[i].start

\* a record is written only in the step in which a call's handler settles or
\* in which the call is denied, and a handler is started only by a call that
\* starts in that step
AuditAfterHandler ==
    /\ Len(log') > Len(log) =>
         \E i \in 1..MaxCalls :
             /\ calls[i].st # "done" /\ calls'[i].st = "done"
             /\ calls'[i].rec = Len(log')
             /\ calls[i].st = "running" \/ calls'[i].outcome = "denied"
    /\ \A i \in 1..MaxCalls :
         calls'[i].invoked # calls[i].invoked => calls[i].st = "idle" /\ calls'[i].st = "running"

LoadsAttempted ==
    /\ BriefingKey(config) # Null => config.packages[BriefingKey(config)].path \in imported
    /\ SheetsKey(config) # Null => config.packages[SheetsKey(config)].path \in imported

\* what holds of the registry and of the calls at each position of main()
RegistrationFirst ==
    /\ pc = "serving" =>
         /\ LoadsAttempted
         /\ DOMAIN packageValidation = DOMAIN config.packages
         /\ registered = setupTools(config, briefingModules, sheetsModules)
         /\ MetaNames \subseteq RegisteredNames
    /\ pc \notin {"initialized", "serving"} => registered = << >>
    /\ pc # "serving" =>
         /\ \A i \in 1..MaxCalls : calls[i] = IdleCall
         /\ log = << >>

\* the transport starts from a resolved initialize() only, a rejected
\* initialize() is the end, and once serving the registry stays as it is
StartAfterInitialize ==
    /\ pc' = "serving" /\ pc # "serving" => pc = "initialized" /\ registered' = registered
    /\ pc = "failed" => pc' = "failed"
    /\ pc = "serving" => pc' = "serving" /\ registered' = registered
    /\ calls' # calls => pc = "serving" /\ pc' = "serving"

\* C22. Registration precedes serving: the transport is started only after
\* initialize() has resolved, with every load attempt made and every tool,
\* the meta tools included, registered; no invocation is accepted before
\* that, and after a rejected initialize() the transport is never started.
C22_RegistrationPrecedesServing == [] RegistrationFirst /\ [][StartAfterInitialize]_vars

\* serving with both packages loaded, their tools and the meta tools
\* registered, and a first call answered
C22_Witness ==
    /\ pc = "serving"
    /\ briefingModules /\ sheetsModules
    /\ imported = { expandPath(PathOf["briefing"]), expandPath(PathOf["sheets"]) }
    /\ { "briefing_content_feed_status", "sheets_list_sheets" } \cup MetaNames
         \subseteq RegisteredNames
    /\ \E i \in 1..MaxCalls : calls[i].st = "done"

\* the step is a call to orchestrator_status or orchestrator_health
MetaStep == \E i \in 1..MaxCalls : calls[i].st = "idle" /\ calls'[i].name \in MetaNames

\* once serving, the registry is the one setupTools built, each registered
\* tool carries the policy the configuration file gave its package, and the
\* configuration is the one loaded
FrozenState ==
    pc = "serving" =>
        /\ registered = setupTools(config, briefingModules, sheetsModules)
        /\ config = TryLoadConfig(loadConfig(configFile)).config
        /\ \A n \in DOMAIN registered :
             registered[n].package # "orchestrator" =>
                 registered[n].policy = config.packages[registered[n].package]

\* a step taken while serving leaves the registry, the configuration with its
\* policies and the load state as they are; a status or health call changes
\* nothing but its own slot
FrozenStep ==
    pc = "serving" =>
        /\ registered' = registered
        /\ config' = config /\ configError' = configError
        /\ packageValidation' = packageValidation
        /\ briefingModules' = briefingModules /\ briefingLoadError' = briefingLoadError
        /\ sheetsModules' = sheetsModules /\ sheetsLoadError' = sheetsLoadError
        /\ imported' = imported
        /\ pc' = pc
        /\ MetaStep =>
             /\ log' = log /\ now' = now /\ fatal' = fatal
             /\ \A i \in 1..MaxCalls : calls[i].st # "idle" => calls'[i] = calls[i]

\* C23. Policy and registry are frozen after initialization: no invocation,
\* allowed, denied or errored, and no call to orchestrator_status or
\* orchestrator_health changes the registered tools, a package policy, the
\* configuration or the recorded load state; status and health change
\* nothing but the answer they give.
C23_FrozenAfterInit == [] FrozenState /\ [][FrozenStep]_vars

\* a denied call and a health call are behind: the registry is the one built
\* at startup, the briefing package is still not loaded and its load error is
\* still the one recorded when its import failed
C23_Witness ==
    /\ pc = "serving"
    /\ \E i \in PackageCalls : calls[i].outcome = "denied"
    /\ \E j \in HealthCalls : calls[j].st = "done"
    /\ registered = setupTools(config, briefingModules, sheetsModules)
    /\ ~briefingModules
    /\ "briefing" \in DOMAIN config.packages
    /\ briefingLoadError = ClassifyLoadError(ImportMessage("not_built", config.packages["briefing"].path),
                                            config.packages["briefing"].path)

-----------------------------------------------------------------------------
(* Parameter validation.                                                   *)

\* the call's arguments do not satisfy the schema of its tool: a declared
\* parameter is missing or is not a string
SchemaViolated(i) ==
    \E p \in SchemaParams(Registration(calls[i].name).tool) :
        p \notin DOMAIN calls[i].args \/ calls[i].args[p] = NumberValue

DeniedRecords == { k \in DOMAIN log : log[k].outcome = "denied" }

-----------------------------------------------------------------------------
(* Calls in flight together.                                               *)

\* a call that is not the hanging one can always be taken up and answered:
\* a free slot takes a status call, a running handler can settle
NotStalled ==
    pc = "serving" =>
        \A i \in 1..MaxCalls :
            /\ NextSlot(i) => ENABLED MetaInvoke(i)
            /\ calls[i].st = "running" => ENABLED Complete(i)

\* C25. A hanging handler stalls only its own call: while the handler of one
\* invocation never settles, every other invocation that is at its
\* handler's await, started before it or after it, is eventually answered,
\* and a call to orchestrator_status can still be made and is answered.
C25_HangStallsOnlyItself ==
    /\ [] NotStalled
    /\ \A i \in 1..MaxCalls :
         (calls[i].st = "running") ~> (calls[i].st \in {"done", "hung"})

\* the first call hangs on briefing_run_weekly_digest; a second call to the
\* same tool, started after it, has its result
C25_Witness ==
    /\ calls[1].st = "hung"
    /\ calls[1].name = "briefing_run_weekly_digest"
    /\ calls[2].st = "done"
    /\ calls[2].name = "briefing_run_weekly_digest"
    /\ calls[2].start >= calls[1].start
    /\ calls[2].result = FormatResult("run_weekly_digest")

-----------------------------------------------------------------------------
(* The loaders.                                                            *)

NotBuilt(packagePath) == << "Package not built? Run npm run build in ", packagePath >>

NotFound(packagePath) == << "Package not found at ", packagePath, ". Check config path." >>

LoadFailure(message) == << "Failed to load: " >> \o message

\* what a loader has to leave behind after importing from the directory of
\* the package under this key
LoadOutcome(key, modules, loadError) ==
    LET packagePath == config.packages[key].path
        message == ImportMessage(disk[key], packagePath)
    IN  /\ message = << >> => modules /\ loadError = << >>
        /\ message # << >> =>
             /\ ~modules
             /\ loadError =
                  IF Includes(message, "Cannot find module")
                       \/ Includes(message, "ERR_MODULE_NOT_FOUND")
                  THEN NotBuilt(packagePath)
                  ELSE IF Includes(message, "ENOENT") THEN NotFound(packagePath)
                  ELSE LoadFailure(message)

\* C26. Load-error classification: a package load never throws; a failed load
\* records exactly one classified error and leaves the package unloaded -
\* NotBuilt when the message contains Cannot find module or
\* ERR_MODULE_NOT_FOUND (tested first), else NotFound when it contains
\* ENOENT, else LoadFailure with the raw message - a successful load records
\* no error, and no package is loaded and carries a load error.
C26_LoadErrorClassification ==
    /\ pc # "failed"
    /\ ~(briefingModules /\ briefingLoadError # << >>)
    /\ ~(sheetsModules /\ sheetsLoadError # << >>)
    /\ pc \notin {"constructed", "configLoaded", "validated"} =>
         IF BriefingKey(config) # Null
         THEN LoadOutcome(BriefingKey(config), briefingModules, briefingLoadError)
         ELSE ~briefingModules /\ briefingLoadError = << >>
    /\ pc \notin {"constructed", "configLoaded", "validated", "briefingDone"} =>
         IF SheetsKey(config) # Null
         THEN LoadOutcome(SheetsKey(config), sheetsModules, sheetsLoadError)
         ELSE ~sheetsModules /\ sheetsLoadError = << >>
    /\ pc \in {"constructed", "configLoaded", "validated"} =>
         ~briefingModules /\ briefingLoadError = << >>
    /\ pc \in {"constructed", "configLoaded", "validated", "briefingDone"} =>
         ~sheetsModules /\ sheetsLoadError = << >>

\* the briefing import failed with a module-not-found message that quotes
\* ENOENT and is recorded as not built; the sheets import failed with a
\* syntax error and is recorded with the raw message; the hub is serving
C26_Witness ==
    /\ pc = "serving"
    /\ disk["briefing"] = "dangling" /\ disk["sheets"] = "broken"
    /\ ~briefingModules /\ ~sheetsModules
    /\ briefingLoadError = NotBuilt("/home/user/mcp-authored/mcp-content-feed")
    /\ sheetsLoadError = LoadFailure(<< "SyntaxError: Unexpected token" >>)

-----------------------------------------------------------------------------
(* The delegated health check.                                             *)

\* the health calls during which the delegated health check threw
ThrowingHealthCalls == { i \in HealthCalls : calls[i].threw }

-----------------------------------------------------------------------------
(* Invocations in flight together.                                         *)

\* the results a call to the tool can get from its own handler
OwnResults(i) ==
    { HandlerResult(Registration(calls[i].name).tool, o).text :
        o \in HandlerOutcomes(Registration(calls[i].name).tool) }

\* each call's result and record are those of its own arguments and of its
\* own handler's outcome
OwnOutcome ==
    /\ \A i \in PackageCalls :
         calls[i].st = "done" =>
             /\ calls[i].outcome = "denied" <=>
                  Addressed(i) /\ ScopedValue(i) \notin ScopeOf(i).allowed
             /\ calls[i].outcome = "denied" =>
                  calls[i].result = DenialText(PolicyOf(i), calls[i].args) /\ calls[i].invoked = 0
             /\ calls[i].outcome = "errored" <=> calls[i].threw
             /\ calls[i].outcome = "errored" =>
                  calls[i].result = << "Error: ", formatError(calls[i].error) >>
             /\ calls[i].outcome # "denied" =>
                  /\ calls[i].result \in OwnResults(i)
                  /\ calls[i].handlerArgs = calls[i].args
                  /\ calls[i].invoked = 1
             /\ LoggingOn =>
                  /\ calls[i].rec \in DOMAIN log
                  /\ \A j \in PackageCalls : j # i => calls[j].rec # calls[i].rec
                  /\ log[calls[i].rec].package = Registration(calls[i].name).package
                  /\ log[calls[i].rec].tool = Registration(calls[i].name).tool
                  /\ log[calls[i].rec].outcome = calls[i].outcome
                  /\ log[calls[i].rec].ts - log[calls[i].rec].duration_ms = calls[i].start
    /\ LoggingOn => Len(log) = Cardinality({ i \in PackageCalls : calls[i].st = "done" })

\* a step touches one call at most, leaves an answered call as it is and the
\* records written as they are
OneCallPerStep ==
    /\ \A i, j \in 1..MaxCalls : i # j /\ calls'[i] # calls[i] => calls'[j] = calls[j]
    /\ \A i \in 1..MaxCalls : calls[i].st \in {"done", "invalid"} => calls'[i] = calls[i]
    /\ IsPrefix(log, log')
    /\ Len(log') <= Len(log) + 1

-----------------------------------------------------------------------------
(* The names of the meta tools.                                            *)

\* the registration is the hub's own operation n
IsMetaOperation(e, n) ==
    /\ e.name = "orchestrator_" \o n
    /\ e.tool = n
    /\ e.policy = HubPolicy
    /\ "handler" \notin DOMAIN e

C29_MetaBoundUnlessDeclared ==
    pc = "initialized" =>
        \A n \in {"status", "health"} :
            /\ "orchestrator_" \o n \in RegisteredNames
            /\ IsMetaOperation(Registration("orchestrator_" \o n), n)
                 <=> ~ \E k \in DOMAIN decl.tools :
                         decl.tools[k] = [ package |-> "orchestrator", tool |-> n ]

\* a package under the key orchestrator declared the tool status: the name
\* orchestrator_status is bound to its handler, orchestrator_health to the hub
C29_Shadowed ==
    /\ pc = "initialized"
    /\ decl.tools = << [ package |-> "orchestrator", tool |-> "status" ] >>
    /\ Len(registered) = 2
    /\ registered[1].name = "orchestrator_status" /\ registered[1].handler = 1
    /\ IsMetaOperation(registered[2], "health")

-----------------------------------------------------------------------------
(* Load state, package by package.                                         *)

\* a module set was imported from the path configured for k, and the import
\* went well
LoadedFromOwnPath(k) ==
    /\ config.packages[k].path \in imported
    /\ disk[k] = "built"

\* the packages an answer of status or health reports as loaded
ReportedLoaded(i) ==
    IF calls[i].name = "orchestrator_status"
    THEN { k \in ConfiguredPackages : calls[i].view.packages[k].state = "Loaded" }
    ELSE { k \in ConfiguredPackages : calls[i].view.packages[k].loaded }

\* C30. Load state is per configured package: status (Loaded) and health
\* (loaded = true) report a configured package as loaded only if a module
\* set was successfully loaded from that package's own configured path; with
\* the briefing key and the legacy newsletter key both enabled each one's
\* state is that of its own path, and an enabled package for which no load
\* was attempted is never reported as loaded.
C30_LoadStatePerPackage ==
    \A i \in StatusCalls \cup HealthCalls :
        ~calls[i].rejected => \A k \in ReportedLoaded(i) : LoadedFromOwnPath(k)

\* what the hub reports: loaded is a flag per kind of package, not per key.
\* sheets is reported loaded only after a load from its own path; a key of
\* the content-feed kind (briefing, newsletter) is reported loaded whenever
\* the one content-feed load - from the path of briefing if that key is
\* enabled, else from the path of newsletter - went well; no other key is
\* ever reported loaded
C30_LoadStatePerKind ==
    \A i \in StatusCalls \cup HealthCalls :
        ~calls[i].rejected =>
            \A k \in ReportedLoaded(i) :
                \/ k = "sheets" /\ LoadedFromOwnPath(k)
                \/ /\ isBriefingPackage(k)
                   /\ BriefingKey(config) # Null
                   /\ LoadedFromOwnPath(BriefingKey(config))

\* briefing and newsletter both enabled, content-feed built, the newsletter
\* directory without a build and never imported: status reports both Loaded
C30_NewsletterReportedLoaded ==
    \E i \in StatusCalls :
        /\ {"briefing", "newsletter"} \subseteq ConfiguredPackages
        /\ EnabledInFile("briefing") /\ EnabledInFile("newsletter")
        /\ disk["briefing"] = "built" /\ disk["newsletter"] = "not_built"
        /\ config.packages["newsletter"].path \notin imported
        /\ calls[i].view.packages["briefing"].state = "Loaded"
        /\ calls[i].view.packages["newsletter"].state = "Loaded"
====
